---- MODULE Spec2Model ----
(***************************************************************************)
(* REST API over the Product resource: the validation chains declared per  *)
(* route in src/router.ts, the error-collecting middleware, and the six    *)
(* handlers that talk to the persistence collaborator.                     *)
(*                                                                         *)
(* A JavaScript string is a sequence of one-character strings, so that the *)
(* string validators (isInt, isNumeric, isEmpty, isBoolean) and the        *)
(* conversions (String(value), Number(value)) are computed, not assumed.   *)
(* Messages are ordinary strings.                                          *)
(***************************************************************************)
EXTENDS Integers, Sequences, FiniteSets, TLC

VARIABLES
    products,   \* rows of the products table: records [id, name, price, availability]
    nextId,     \* the id storage gives to the next created row (auto-increment)
    pc,         \* per request slot: where the request's middleware/handler chain is
    req,        \* per request slot: the request being served
    inst,       \* per request slot: the row instance a handler fetched by id
    resp,       \* per request slot: the response sent
    trace,      \* per request slot: the handler entered and the persistence calls made
    before,     \* per request slot: the rows stored when the request arrived
    prev,       \* summary of the last completed exchange
    writes,     \* per request slot: persistence writes made, by any request, since
                \* the slot's request arrived (3 stands for 3 or more)
    deleted     \* ids whose DELETE was answered 200

vars ==
    <<products, nextId, pc, req, inst, resp, trace, before, prev, writes, deleted>>

(***************************************************************************)
(* Bounds                                                                  *)
(***************************************************************************)
\* number of rows storage creates in one behaviour
MaxProducts == 2

\* request slots; the sequential specification serves one request at a time
Slots == {1, 2}
SeqSlots == {1}

(***************************************************************************)
(* JSON values of request bodies                                           *)
(***************************************************************************)
Undefined == [t |-> "undefined", v |-> 0]
Str(s) == [t |-> "string", v |-> s]
Num(n) == [t |-> "number", v |-> n]
Bool(b) == [t |-> "boolean", v |-> b]

Digits == <<"0", "1", "2", "3", "4", "5", "6", "7", "8", "9">>
IsDigit(c) == \E i \in 1..10 : Digits[i] = c
DigitVal(c) == (CHOOSE i \in 1..10 : Digits[i] = c) - 1

\* String(n) for a natural number
RECURSIVE NatToStr(_)
NatToStr(n) ==
    IF n < 10 THEN <<Digits[n + 1]>>
    ELSE NatToStr(n \div 10) \o <<Digits[(n % 10) + 1]>>

\* String(n) for an integer
IntToStr(n) == IF n < 0 THEN <<"-">> \o NatToStr(0 - n) ELSE NatToStr(n)

AllDigits(s) == \A i \in 1..Len(s) : IsDigit(s[i])
HasSign(s) == Len(s) > 0 /\ s[1] \in {"+", "-"}
Unsigned(s) == IF HasSign(s) THEN Tail(s) ELSE s

RECURSIVE DigitsToNat(_)
DigitsToNat(s) ==
    IF Len(s) = 0 THEN 0
    ELSE 10 * DigitsToNat(SubSeq(s, 1, Len(s) - 1)) + DigitVal(s[Len(s)])

\* the integer a decimal integer literal denotes
StrToInt(s) ==
    IF HasSign(s) /\ s[1] = "-" THEN 0 - DigitsToNat(Tail(s))
    ELSE DigitsToNat(Unsigned(s))

\* express-validator's toString(value): what the standard validators are given
toString(value) ==
    CASE value.t = "undefined" -> <<>>
      [] value.t = "string" -> value.v
      [] value.t = "number" -> IntToStr(value.v)
      [] value.t = "boolean" ->
            IF value.v THEN <<"t", "r", "u", "e">> ELSE <<"f", "a", "l", "s", "e">>

\* validator.js isInt: ^(?:[-+]?(?:0|[1-9][0-9]*))$
isInt(s) ==
    LET u == Unsigned(s) IN
        /\ Len(u) > 0
        /\ AllDigits(u)
        /\ (u[1] = "0" => Len(u) = 1)

\* validator.js isNumeric: ^[+-]?([0-9]*[.])?[0-9]+$
isNumeric(s) ==
    LET u == Unsigned(s) IN
        \/ Len(u) > 0 /\ AllDigits(u)
        \/ \E k \in 1..Len(u) :
              /\ u[k] = "."
              /\ AllDigits(SubSeq(u, 1, k - 1))
              /\ k < Len(u)
              /\ AllDigits(SubSeq(u, k + 1, Len(u)))

\* validator.js isEmpty
isEmpty(s) == Len(s) = 0

\* validator.js isBoolean (not strict)
isBoolean(s) ==
    s \in {<<"t", "r", "u", "e">>, <<"f", "a", "l", "s", "e">>, <<"1">>, <<"0">>}

\* Number(s) is a number (not NaN) for a string s: empty, or a decimal literal
\* [+-]?(digits[.digits?] | .digits)
IsDecimalLiteral(s) ==
    LET u == Unsigned(s)
        dots == {k \in 1..Len(u) : u[k] = "."}
    IN  /\ \A i \in 1..Len(u) : IsDigit(u[i]) \/ u[i] = "."
        /\ Cardinality(dots) <= 1
        /\ \E i \in 1..Len(u) : IsDigit(u[i])

\* the custom rule of the price chain, value => value > 0, with JavaScript's
\* conversion of the operand to a number
GreaterThanZero(value) ==
    CASE value.t = "undefined" -> FALSE
      [] value.t = "number" -> value.v > 0
      [] value.t = "boolean" -> value.v
      [] value.t = "string" ->
            /\ IsDecimalLiteral(value.v)
            /\ ~(value.v[1] = "-")
            /\ \E i \in 1..Len(value.v) :
                  IsDigit(value.v[i]) /\ value.v[i] # "0"

(***************************************************************************)
(* Validation chains (src/router.ts)                                       *)
(***************************************************************************)
MsgInvalidId == "Id no válido"
MsgNameEmpty == "El nombre del producto no puede ir vacío"
MsgPriceNotNumeric == "Valor no válido"
MsgPriceEmpty == "El precio del producto no puede ir vacío"
MsgPriceInvalid == "El precio del producto no es válido"
MsgAvailabilityInvalid == "Valor para disponibilidad no válido"

Rule(location, field, check, msg) ==
    [location |-> location, field |-> field, check |-> check, msg |-> msg]

\* the id rule with isNumeric in the place of isInt
IdRuleNumeric == Rule("params", "id", "isNumeric", MsgInvalidId)

\* param('id').isInt().withMessage(...)
IdRule == Rule("params", "id", "isInt", MsgInvalidId)

\* body('name').notEmpty().withMessage(...)
NameRules == <<Rule("body", "name", "notEmpty", MsgNameEmpty)>>

\* the price rules without the custom rule value > 0
PriceRulesNoCustom ==
    << Rule("body", "price", "isNumeric", MsgPriceNotNumeric),
       Rule("body", "price", "notEmpty", MsgPriceEmpty) >>

\* the price rules with notEmpty declared before isNumeric
PriceRulesReordered ==
    << Rule("body", "price", "notEmpty", MsgPriceEmpty),
       Rule("body", "price", "isNumeric", MsgPriceNotNumeric),
       Rule("body", "price", "custom", MsgPriceInvalid) >>

\* body('price').isNumeric()....notEmpty()....custom( value => value > 0 )....
PriceRules ==
    << Rule("body", "price", "isNumeric", MsgPriceNotNumeric),
       Rule("body", "price", "notEmpty", MsgPriceEmpty),
       Rule("body", "price", "custom", MsgPriceInvalid) >>

\* the availability rule with isNumeric in the place of isBoolean
AvailabilityRulesNumeric ==
    <<Rule("body", "availability", "isNumeric", MsgAvailabilityInvalid)>>

\* body('availability').isBoolean().withMessage(...)
AvailabilityRules ==
    <<Rule("body", "availability", "isBoolean", MsgAvailabilityInvalid)>>

\* router.get('/', getProducts)
GetProductsChain == <<>>

\* router.get('/:id', ...)
GetProductByIDChain == <<IdRule>>

\* the create chain with the availability rule of the update chain
CreateProductChainWithAvailability == NameRules \o PriceRules \o AvailabilityRules

\* router.post('/', ...)
CreateProductChain == NameRules \o PriceRules

\* the update chain without the id rule
UpdateProductChainNoId == NameRules \o PriceRules \o AvailabilityRules

\* router.put('/:id', ...)
UpdateProductChain == <<IdRule>> \o NameRules \o PriceRules \o AvailabilityRules

\* the availability chain with the availability rule of the update chain
UpdateAvailabilityChainWithAvailability == <<IdRule>> \o AvailabilityRules

\* the availability chain with the body rules of the update chain
UpdateAvailabilityChainWithBody ==
    <<IdRule>> \o NameRules \o PriceRules \o AvailabilityRules

\* router.patch('/:id', ...)
UpdateAvailabilityChain == <<IdRule>>

\* the delete chain with the name rule of the update chain
DeleteProductChainWithName == <<IdRule>> \o NameRules

\* router.delete('/:id', ...)
DeleteProductChain == <<IdRule>>

\* the handler the router binds to a method and path
HandlerOf(r) ==
    CASE r.method = "GET" /\ ~r.hasId -> "getProducts"
      [] r.method = "GET" /\ r.hasId -> "getProductByID"
      [] r.method = "POST" -> "createProduct"
      [] r.method = "PUT" -> "updateProduct"
      [] r.method = "PATCH" -> "updateAvailability"
      [] r.method = "DELETE" -> "deleteProduct"

\* the validation chain the router declares before that handler
ChainOf(r) ==
    CASE HandlerOf(r) = "getProducts" -> GetProductsChain
      [] HandlerOf(r) = "getProductByID" -> GetProductByIDChain
      [] HandlerOf(r) = "createProduct" -> CreateProductChain
      [] HandlerOf(r) = "updateProduct" -> UpdateProductChain
      [] HandlerOf(r) = "updateAvailability" -> UpdateAvailabilityChain
      [] HandlerOf(r) = "deleteProduct" -> DeleteProductChain

\* the value a rule selects from the request
FieldValue(rule, r) ==
    IF rule.location = "params" THEN Str(r.id) ELSE r.body[rule.field]

\* whether the rule's validator accepts the request's value
Passes(rule, r) ==
    LET value == FieldValue(rule, r) IN
    CASE rule.check = "isInt" -> isInt(toString(value))
      [] rule.check = "notEmpty" -> ~isEmpty(toString(value))
      [] rule.check = "isNumeric" -> isNumeric(toString(value))
      [] rule.check = "custom" -> GreaterThanZero(value)
      [] rule.check = "isBoolean" -> isBoolean(toString(value))

\* validationResult(req).array(): one entry per failing validator, in the
\* order the chains run
ValidationErrors(r) ==
    LET failing == SelectSeq(ChainOf(r), LAMBDA rule : ~Passes(rule, r)) IN
        [i \in 1..Len(failing) |->
            [type |-> "field", msg |-> failing[i].msg,
             path |-> failing[i].field, location |-> failing[i].location]]

(***************************************************************************)
(* Responses                                                               *)
(***************************************************************************)
MsgNotFoundOther == "No encontrado"
MsgNotFound == "Producto no encontrado"
MsgDeleted == "Producto eliminado"
MsgServerError == "Server error"

NoData == [kind |-> "none", val |-> 0]
NoResponse ==
    [status |-> 0, keys |-> {}, errors |-> <<>>, error |-> "", data |-> NoData]

\* res.status(400).json({ errors: errors.array() })
BadRequest(errors) ==
    [status |-> 400, keys |-> {"errors"}, errors |-> errors, error |-> "",
     data |-> NoData]

\* res.status(404).json({ error: 'Producto no encontrado' })
NotFound ==
    [status |-> 404, keys |-> {"error"}, errors |-> <<>>, error |-> MsgNotFound,
     data |-> NoData]

\* a 500 whose message is the storage error's own
ServerErrorWithDetail ==
    [status |-> 500, keys |-> {"error"}, errors |-> <<>>,
     error |-> "SequelizeDatabaseError", data |-> NoData]

\* res.status(500) with a generic message
ServerError ==
    [status |-> 500, keys |-> {"error"}, errors |-> <<>>,
     error |-> MsgServerError, data |-> NoData]

\* res.status(status).json({ data: ... })
DataResponse(status, kind, val) ==
    [status |-> status, keys |-> {"data"}, errors |-> <<>>, error |-> "",
     data |-> [kind |-> kind, val |-> val]]

(***************************************************************************)
(* Requests                                                                *)
(***************************************************************************)
NoId == <<>>
EmptyBody ==
    [name |-> Undefined, price |-> Undefined, availability |-> Undefined]
NoRequest == [method |-> "none", hasId |-> FALSE, id |-> NoId, body |-> EmptyBody]

\* :id path parameters: the ids storage can have given, an id of no row, and
\* strings that are not integers
IdParams ==
    {IntToStr(i) : i \in 1..MaxProducts}
        \cup { <<"2", "0", "0", "0">>, <<"-", "1">>, <<"0", "1">>,
               <<"1", ".", "5">>, <<"h", "o", "l", "a">> }

\* body fields no route accepts
BadNames == {Undefined, Str(<<>>)}
BadPrices ==
    {Undefined, Num(0), Num(-5), Str(<<>>), Str(<<"H", "o", "l", "a">>),
     Str(<<"5", ".">>)}
BadAvailabilities == {Undefined, Str(<<"s", "i">>)}

\* bodies sent to POST /
CreateBodies ==
    {[name |-> n, price |-> p, availability |-> Undefined] :
        n \in BadNames \cup {Str(<<"M", "o", "u", "s", "e">>)},
        p \in BadPrices \cup {Num(100)}}

\* bodies sent to PUT /:id
UpdateBodies ==
    {[name |-> n, price |-> p, availability |-> a] :
        n \in BadNames \cup {Str(<<"T", "V">>)},
        p \in BadPrices \cup {Str(<<"3", "0", "0">>)},
        a \in BadAvailabilities \cup {Bool(TRUE), Bool(FALSE), Num(1)}}

Request(method, hasId, id, body) ==
    [method |-> method, hasId |-> hasId, id |-> id, body |-> body]

Requests ==
    {Request("GET", FALSE, NoId, EmptyBody)}
        \cup {Request(m, TRUE, id, EmptyBody) :
                m \in {"GET", "PATCH", "DELETE"}, id \in IdParams}
        \cup {Request("POST", FALSE, NoId, b) : b \in CreateBodies}
        \cup {Request("PUT", TRUE, id, b) : id \in IdParams, b \in UpdateBodies}

(***************************************************************************)
(* Persistence collaborator: the products table                            *)
(***************************************************************************)
\* column conversions of the Product model: name string, price number,
\* availability boolean
ToColumnString(value) == toString(value)
ToColumnNumber(value) ==
    IF value.t = "number" THEN value.v ELSE StrToInt(toString(value))
ToColumnBoolean(value) ==
    IF value.t = "boolean" THEN value.v
    ELSE toString(value) \in {<<"t", "r", "u", "e">>, <<"1">>}

Ids(rows) == {p.id : p \in rows}
RowById(rows, id) == CHOOSE p \in rows : p.id = id

\* rows in ascending id order
RECURSIVE OrderById(_)
OrderById(rows) ==
    IF rows = {} THEN <<>>
    ELSE LET first == CHOOSE p \in rows : \A q \in rows : p.id <= q.id
         IN  <<first>> \o OrderById(rows \ {first})

NoInstance == [id |-> 0, name |-> <<>>, price |-> 0, availability |-> FALSE]

Event(op) == [op |-> op, error |-> ""]
Thrown(op, detail) == [op |-> op, error |-> detail]

NoExchange ==
    [method |-> "none", target |-> 0, status |-> 0,
     availBefore |-> FALSE, availAfter |-> FALSE]

Init ==
    /\ products = {}
    /\ nextId = 1
    /\ pc = [s \in Slots |-> "idle"]
    /\ req = [s \in Slots |-> NoRequest]
    /\ inst = [s \in Slots |-> NoInstance]
    /\ resp = [s \in Slots |-> NoResponse]
    /\ trace = [s \in Slots |-> <<>>]
    /\ before = [s \in Slots |-> {}]
    /\ prev = NoExchange
    /\ writes = [s \in Slots |-> 0]
    /\ deleted = {}

Respond(s, response) ==
    /\ resp' = [resp EXCEPT ![s] = response]
    /\ pc' = [pc EXCEPT ![s] = "done"]

Log(s, op) == trace' = [trace EXCEPT ![s] = Append(@, Event(op))]

\* a persistence write is counted for every request being served
Written ==
    writes' =
        [t \in Slots |->
            IF pc[t] = "idle" THEN 0
            ELSE IF writes[t] < 3 THEN writes[t] + 1 ELSE 3]

\* the first persistence call each handler makes
FirstCall(handler) ==
    CASE handler = "getProducts" -> "findAll"
      [] handler = "createProduct" -> "create"
      [] OTHER -> "findById"

(***************************************************************************)
(* Middleware: the route's validation chain, then handleInputErrors        *)
(***************************************************************************)
handleInputErrors(s, r) ==
    LET errors == ValidationErrors(r) IN
        IF Len(errors) > 0
        THEN /\ Respond(s, BadRequest(errors))
             /\ UNCHANGED trace
        ELSE /\ pc' = [pc EXCEPT ![s] = FirstCall(HandlerOf(r))]
             /\ trace' = [trace EXCEPT ![s] = <<Event(HandlerOf(r))>>]
             /\ UNCHANGED resp

Receive(s) ==
    /\ pc[s] = "idle"
    /\ \E r \in Requests :
          /\ (r.method = "POST" /\ Len(ValidationErrors(r)) = 0)
                => nextId <= MaxProducts
          /\ req' = [req EXCEPT ![s] = r]
          /\ before' = [before EXCEPT ![s] = products]
          /\ handleInputErrors(s, r)
    /\ UNCHANGED <<products, nextId, inst, prev, deleted>>
    /\ writes' = [writes EXCEPT ![s] = 0]

(***************************************************************************)
(* Handlers, one action per persistence call and what follows it           *)
(***************************************************************************)
\* the row createProduct builds from the validated body
NewRow(id, body) ==
    [id |-> id, name |-> ToColumnString(body.name),
     price |-> ToColumnNumber(body.price), availability |-> TRUE]

\* the row updateProduct leaves after overwriting name, price, availability
Overwritten(row, body) ==
    [id |-> row.id, name |-> ToColumnString(body.name),
     price |-> ToColumnNumber(body.price),
     availability |-> ToColumnBoolean(body.availability)]

\* the row updateAvailability leaves after flipping availability
Flipped(row) == [row EXCEPT !.availability = ~row.availability]

\* getProducts: findAll ordered by id, 200 {data: [...]}
FindAll(s) ==
    /\ pc[s] = "findAll"
    /\ Log(s, "findAll")
    /\ Respond(s, DataResponse(200, "list", OrderById(products)))
    /\ UNCHANGED <<products, nextId, req, inst, before, prev, deleted, writes>>

\* createProduct: create, 201 {data: createdRow}
Create(s) ==
    /\ pc[s] = "create"
    /\ Log(s, "create")
    /\ LET row == NewRow(nextId, req[s].body) IN
          /\ products' = products \cup {row}
          /\ nextId' = nextId + 1
          /\ Respond(s, DataResponse(201, "product", row))
    /\ UNCHANGED <<req, inst, before, prev, deleted>>
    /\ Written

\* getProductByID, updateProduct, updateAvailability, deleteProduct: fetch by
\* id; 404 when there is no such row
FindById(s) ==
    /\ pc[s] = "findById"
    /\ Log(s, "findById")
    /\ LET id == StrToInt(req[s].id)
           handler == HandlerOf(req[s])
       IN  IF id \notin Ids(products)
           THEN /\ Respond(s, NotFound)
                /\ UNCHANGED inst
           ELSE LET row == RowById(products, id) IN
                CASE handler = "getProductByID" ->
                        /\ Respond(s, DataResponse(200, "product", row))
                        /\ UNCHANGED inst
                  [] handler = "updateProduct" ->
                        /\ inst' = [inst EXCEPT ![s] = Overwritten(row, req[s].body)]
                        /\ pc' = [pc EXCEPT ![s] = "save"]
                        /\ UNCHANGED resp
                  [] handler = "updateAvailability" ->
                        /\ inst' = [inst EXCEPT ![s] = Flipped(row)]
                        /\ pc' = [pc EXCEPT ![s] = "save"]
                        /\ UNCHANGED resp
                  [] handler = "deleteProduct" ->
                        /\ inst' = [inst EXCEPT ![s] = row]
                        /\ pc' = [pc EXCEPT ![s] = "destroy"]
                        /\ UNCHANGED resp
    /\ UNCHANGED <<products, nextId, req, before, prev, deleted, writes>>

\* updateProduct, updateAvailability: save the instance, 200 {data: updatedRow}
Save(s) ==
    /\ pc[s] = "save"
    /\ Log(s, "save")
    /\ products' =
          IF inst[s].id \in Ids(products)
          THEN {p \in products : p.id # inst[s].id} \cup {inst[s]}
          ELSE products
    /\ Respond(s, DataResponse(200, "product", inst[s]))
    /\ UNCHANGED <<nextId, req, inst, before, prev, deleted>>
    /\ Written

\* deleteProduct: destroy the instance, 200 {data: 'Producto eliminado'}
Destroy(s) ==
    /\ pc[s] = "destroy"
    /\ Log(s, "destroy")
    /\ products' = {p \in products : p.id # inst[s].id}
    /\ deleted' = deleted \cup {inst[s].id}
    /\ Respond(s, DataResponse(200, "string", MsgDeleted))
    /\ UNCHANGED <<nextId, req, inst, before, prev>>
    /\ Written

\* what is remembered of an exchange once its response has been read: a
\* create answered 201 or an availability update answered 200
Exchange(s) ==
    LET r == req[s]
        handler == HandlerOf(r)
    IN  IF handler = "createProduct" /\ resp[s].status = 201
        THEN [method |-> r.method, target |-> resp[s].data.val.id,
              status |-> 201, availBefore |-> FALSE,
              availAfter |-> resp[s].data.val.availability]
        ELSE IF handler = "updateAvailability" /\ resp[s].status = 200
        THEN [method |-> r.method, target |-> StrToInt(r.id), status |-> 200,
              availBefore |->
                 IF StrToInt(r.id) \in Ids(before[s])
                 THEN RowById(before[s], StrToInt(r.id)).availability
                 ELSE FALSE,
              availAfter |-> resp[s].data.val.availability]
        ELSE NoExchange

\* the client reads the response; the slot is free for the next request
Finish(s) ==
    /\ pc[s] = "done"
    /\ prev' = Exchange(s)
    /\ pc' = [pc EXCEPT ![s] = "idle"]
    /\ req' = [req EXCEPT ![s] = NoRequest]
    /\ inst' = [inst EXCEPT ![s] = NoInstance]
    /\ resp' = [resp EXCEPT ![s] = NoResponse]
    /\ trace' = [trace EXCEPT ![s] = <<>>]
    /\ before' = [before EXCEPT ![s] = {}]
    /\ UNCHANGED <<products, nextId, deleted>>
    /\ writes' = [writes EXCEPT ![s] = 0]

\* storage-level errors a persistence call can throw
StorageErrors == {"SequelizeConnectionError", "SequelizeDatabaseError"}
PersistenceCalls == {"findAll", "findById", "create", "save", "destroy"}

\* a persistence call throws: the handler's catch answers 500
Throw(s) ==
    /\ pc[s] \in PersistenceCalls
    /\ \E detail \in StorageErrors :
          trace' = [trace EXCEPT ![s] = Append(@, Thrown(pc[s], detail))]
    /\ Respond(s, ServerError)
    /\ UNCHANGED <<products, nextId, req, inst, before, prev, deleted, writes>>

Step(s) ==
    \/ Receive(s)
    \/ FindAll(s)
    \/ Create(s)
    \/ FindById(s)
    \/ Save(s)
    \/ Destroy(s)
    \/ Finish(s)

\* requests served one at a time, storage never failing
Next == \E s \in SeqSlots : Step(s)
Spec == Init /\ [][Next]_vars

\* requests served one at a time, any persistence call may throw
NextThrow == \E s \in SeqSlots : Step(s) \/ Throw(s)
SpecThrow == Init /\ [][NextThrow]_vars

\* requests served while others are in flight: creates with one valid body and
\* availability updates
ConcurrentRequests ==
    {Request("POST", FALSE, NoId,
             [name |-> Str(<<"M", "o", "u", "s", "e">>), price |-> Num(100),
              availability |-> Undefined])}
        \cup {Request("PATCH", TRUE, id, EmptyBody) : id \in IdParams}

\* a request arrives on a free slot, whatever the other slots are doing
ReceiveConcurrent(s) ==
    /\ pc[s] = "idle"
    /\ \E r \in ConcurrentRequests :
          /\ r.method = "POST" =>
                nextId + Cardinality({t \in Slots : pc[t] = "create"}) <= MaxProducts
          /\ req' = [req EXCEPT ![s] = r]
          /\ before' = [before EXCEPT ![s] = products]
          /\ handleInputErrors(s, r)
    /\ UNCHANGED <<products, nextId, inst, prev, deleted>>
    /\ writes' = [writes EXCEPT ![s] = 0]

StepConcurrent(s) ==
    \/ ReceiveConcurrent(s)
    \/ Create(s)
    \/ FindById(s)
    \/ Save(s)
    \/ Finish(s)

\* requests in flight together, each suspended only at its persistence calls,
\* every persistence call atomic
NextConcurrent == \E s \in Slots : StepConcurrent(s)
SpecConcurrent == Init /\ [][NextConcurrent]_vars

(***************************************************************************)
(* Properties                                                              *)
(***************************************************************************)
\* the declared rules, stated on the request itself
IdFails(r) == r.hasId /\ ~isInt(r.id)
NameFails(r) == isEmpty(toString(r.body.name))
PriceNotNumeric(r) == ~isNumeric(toString(r.body.price))
PriceEmpty(r) == isEmpty(toString(r.body.price))
PriceNotPositive(r) == ~GreaterThanZero(r.body.price)
AvailabilityFails(r) == ~isBoolean(toString(r.body.availability))
BodyFails(r) ==
    \/ r.method \in {"POST", "PUT"}
          /\ (NameFails(r) \/ PriceNotNumeric(r) \/ PriceEmpty(r) \/ PriceNotPositive(r))
    \/ r.method = "PUT" /\ AvailabilityFails(r)
AnyRuleFails(r) == IdFails(r) \/ BodyFails(r)

Served(s) == pc[s] = "done"
WriteCalls(s) ==
    SelectSeq(trace[s], LAMBDA e : e.op \in {"create", "save", "destroy"})
PersistenceCallsOf(s) == SelectSeq(trace[s], LAMBDA e : e.op \in PersistenceCalls)

\* C1: on every route with validation rules, a request failing at least one
\* rule is answered 400 {errors: [...]} with a non-empty list, its handler is
\* never entered and the stored products are unchanged; a request failing no
\* rule enters its handler and gets no 400.
C1_ValidationGate ==
    \A s \in Slots : pc[s] # "idle" =>
        IF AnyRuleFails(req[s])
        THEN /\ pc[s] = "done"
             /\ resp[s].status = 400
             /\ resp[s].keys = {"errors"}
             /\ Len(resp[s].errors) > 0
             /\ trace[s] = <<>>
             /\ products = before[s]
        ELSE /\ Len(trace[s]) > 0
             /\ trace[s][1].op = HandlerOf(req[s])
             /\ resp[s].status # 400

C1_Witness ==
    \E s \in Slots :
        /\ Served(s) /\ resp[s].status = 400
        /\ req[s].method = "PUT" /\ isInt(req[s].id)
        /\ StrToInt(req[s].id) \in Ids(products)

When(cond, msg) == IF cond THEN <<msg>> ELSE <<>>

\* the messages the claim's rules give for a request, in declaration order
ExpectedMessages(r) ==
    When(IdFails(r), MsgInvalidId)
        \o When(NameFails(r), MsgNameEmpty)
        \o When(PriceNotNumeric(r), MsgPriceNotNumeric)
        \o When(PriceEmpty(r), MsgPriceEmpty)
        \o When(PriceNotPositive(r), MsgPriceInvalid)
        \o When(r.method = "PUT" /\ AvailabilityFails(r), MsgAvailabilityInvalid)

MessagesOf(errors) == [i \in 1..Len(errors) |-> errors[i].msg]

ValidName(r) == r.body.name.t = "string" /\ Len(r.body.name.v) > 0

\* C2: on POST / and PUT /:id the errors of a 400 hold one entry per failing
\* check, in declaration order, nothing dropped or merged: {} on create gives
\* 4 errors, a valid name with price 0 gives 1, a valid name with a
\* non-numeric price string gives 2, {} on update with a good id gives 5.
C2_AllErrorsInOrder ==
    \A s \in Slots : (Served(s) /\ req[s].method \in {"POST", "PUT"}) =>
        LET r == req[s]
            n == Len(resp[s].errors)
        IN  /\ resp[s].status = 400 =>
                MessagesOf(resp[s].errors) = ExpectedMessages(r)
            /\ (r.method = "POST" /\ r.body = EmptyBody) => n = 4
            /\ (r.method = "POST" /\ ValidName(r) /\ r.body.price = Num(0)) => n = 1
            /\ (r.method = "POST" /\ ValidName(r)
                    /\ r.body.price = Str(<<"H", "o", "l", "a">>)) => n = 2
            /\ (r.method = "PUT" /\ isInt(r.id) /\ r.body = EmptyBody) => n = 5

C2_Witness ==
    \E s \in Slots :
        /\ Served(s) /\ req[s].method = "PUT" /\ req[s].body = EmptyBody
        /\ isInt(req[s].id)
        /\ Len(resp[s].errors) = 5

\* a request with an :id that is no integer and nothing else wrong
OnlyIdFails(r) == IdFails(r) /\ ~BodyFails(r)

InvalidIdAnswer(s, msg) ==
    /\ pc[s] = "done"
    /\ resp[s].status = 400
    /\ Len(resp[s].errors) = 1
    /\ resp[s].errors[1].msg = msg
    /\ trace[s] = <<>>

\* C3 as claimed: a request on a route with :id whose id is no integer, with
\* an otherwise valid body, is answered 400 with exactly one error whose
\* message is "Invalid id", and never reaches the handler or persistence.
C3_Original ==
    \A s \in Slots : (pc[s] # "idle" /\ OnlyIdFails(req[s])) =>
        InvalidIdAnswer(s, "Invalid id")

\* C3 as amended: the same, the message being 'Id no válido'.
C3_InvalidId ==
    \A s \in Slots : (pc[s] # "idle" /\ OnlyIdFails(req[s])) =>
        InvalidIdAnswer(s, "Id no válido")

C3_Witness ==
    \E s \in Slots :
        /\ Served(s) /\ req[s].method = "PUT" /\ OnlyIdFails(req[s])
        /\ products # {}

\* a request on /:id with a well-formed id of no stored row, nothing else wrong
TargetId(r) == StrToInt(r.id)
WellFormedId(r) == r.hasId /\ isInt(r.id)
Absent(s) ==
    /\ WellFormedId(req[s]) /\ ~BodyFails(req[s])
    /\ TargetId(req[s]) \notin Ids(before[s])
Present(s) ==
    /\ WellFormedId(req[s]) /\ ~BodyFails(req[s])
    /\ TargetId(req[s]) \in Ids(before[s])

NotFoundAnswer(s, msg) ==
    /\ resp[s].status = 404
    /\ resp[s].keys = {"error"}
    /\ resp[s].error = msg
    /\ products = before[s]
    /\ Len(WriteCalls(s)) = 0

\* C4 as claimed: GET, PUT (valid body), PATCH and DELETE of a well-formed id
\* that no stored product has are answered 404 {error: "Product not found"},
\* no data key, the stored products unchanged and no persistence write made.
C4_Original ==
    \A s \in Slots : (Served(s) /\ Absent(s)) =>
        NotFoundAnswer(s, "Product not found")

\* C4 as amended: the same, the body being {error: 'Producto no encontrado'}.
C4_NotFound ==
    \A s \in Slots : (Served(s) /\ Absent(s)) =>
        NotFoundAnswer(s, "Producto no encontrado")

C4_Witness ==
    \E s \in Slots :
        /\ Served(s) /\ Absent(s) /\ req[s].method = "PUT"
        /\ resp[s].status = 404
        /\ products # {}

\* the number and the boolean a validated body value stands for
NumberOf(value) == IF value.t = "number" THEN value.v ELSE StrToInt(value.v)
BooleanOf(value) ==
    IF value.t = "boolean" THEN value.v
    ELSE toString(value) \in {<<"1">>, <<"t", "r", "u", "e">>}

\* C5: a POST / with a valid body is answered 201 {data: createdRow} and no
\* error key; the store then holds exactly one more product, with the body's
\* name and price, availability true and an id no stored product had, the
\* others unchanged; a GET / that follows lists the new row.
C5_Create ==
    \A s \in Slots :
        /\ (Served(s) /\ req[s].method = "POST" /\ ~BodyFails(req[s])) =>
              /\ resp[s].status = 201
              /\ resp[s].keys = {"data"}
              /\ resp[s].data.kind = "product"
              /\ LET row == resp[s].data.val IN
                    /\ row.id \notin Ids(before[s])
                    /\ products = before[s] \cup {row}
                    /\ Cardinality(products) = Cardinality(before[s]) + 1
                    /\ row.name = req[s].body.name.v
                    /\ row.price = NumberOf(req[s].body.price)
                    /\ row.availability = TRUE
        /\ (Served(s) /\ HandlerOf(req[s]) = "getProducts" /\ prev.method = "POST") =>
              /\ resp[s].status = 200
              /\ resp[s].data.kind = "list"
              /\ \E i \in 1..Len(resp[s].data.val) :
                    resp[s].data.val[i].id = prev.target

C5_Witness ==
    \E s \in Slots :
        /\ Served(s) /\ req[s].method = "POST" /\ resp[s].status = 201
        /\ before[s] # {}

\* C6: a PUT /:id of an existing product with a valid body is answered 200
\* {data: updatedRow} and no errors key; the stored product of that id then
\* has the body's name, price and availability (as values of the columns'
\* types) and the same id, every other product is unchanged, and exactly one
\* persistence write was made.
C6_Update ==
    \A s \in Slots :
        (Served(s) /\ req[s].method = "PUT" /\ Present(s)) =>
            LET id == TargetId(req[s])
                body == req[s].body
            IN  /\ resp[s].status = 200
                /\ resp[s].keys = {"data"}
                /\ resp[s].data.kind = "product"
                /\ Ids(products) = Ids(before[s])
                /\ LET row == RowById(products, id) IN
                      /\ resp[s].data.val = row
                      /\ row.name = body.name.v
                      /\ row.price = NumberOf(body.price)
                      /\ row.availability = BooleanOf(body.availability)
                /\ {p \in products : p.id # id} = {p \in before[s] : p.id # id}
                /\ Len(WriteCalls(s)) = 1

C6_Witness ==
    \E s \in Slots :
        /\ Served(s) /\ req[s].method = "PUT" /\ resp[s].status = 200
        /\ Cardinality(products) = 2
        /\ products # before[s]

\* C7: a PATCH /:id of an existing product is answered 200 with
\* data.availability the negation of the stored value, no other field and no
\* other product changed; a second PATCH of the same id right after the first
\* leaves availability at its original value and reports that value.
C7_Toggle ==
    \A s \in Slots :
        (Served(s) /\ req[s].method = "PATCH" /\ Present(s)) =>
            LET id == TargetId(req[s])
                old == RowById(before[s], id)
                new == [old EXCEPT !.availability = ~old.availability]
            IN  /\ resp[s].status = 200
                /\ resp[s].data.kind = "product"
                /\ resp[s].data.val.availability = ~old.availability
                /\ resp[s].data.val = new
                /\ products = (before[s] \ {old}) \cup {new}
                /\ (prev.method = "PATCH" /\ prev.target = id) =>
                      /\ RowById(products, id).availability = prev.availBefore
                      /\ resp[s].data.val.availability = prev.availBefore

C7_Witness ==
    \E s \in Slots :
        /\ Served(s) /\ req[s].method = "PATCH" /\ resp[s].status = 200
        /\ prev.method = "PATCH" /\ prev.target = TargetId(req[s])
        /\ Cardinality(products) = 2

DeleteAnswer(s) ==
    (Served(s) /\ req[s].method = "DELETE" /\ Present(s)) =>
        LET old == RowById(before[s], TargetId(req[s])) IN
            /\ resp[s].status = 200
            /\ resp[s].data.kind = "string"
            /\ resp[s].data.val = "Producto eliminado"
            /\ products = before[s] \ {old}
            /\ Cardinality(products) = Cardinality(before[s]) - 1

\* a request on the id of a product deleted before the request arrived
OnDeleted(s) ==
    /\ WellFormedId(req[s])
    /\ TargetId(req[s]) \in deleted
    /\ TargetId(req[s]) \notin Ids(before[s])

\* C8 as claimed: a DELETE /:id of an existing product is answered 200 with
\* the confirmation string and removes that product only; every later GET,
\* PUT, PATCH or DELETE of the same id is answered 404.
C8_Original ==
    \A s \in Slots :
        /\ DeleteAnswer(s)
        /\ (Served(s) /\ OnDeleted(s)) => resp[s].status = 404

\* C8 as amended: the same, the later PUT being one whose body passes
\* validation; no product ever has a deleted id again.
C8_Delete ==
    /\ \A s \in Slots :
          /\ DeleteAnswer(s)
          /\ (Served(s) /\ OnDeleted(s) /\ ~BodyFails(req[s])) =>
                resp[s].status = 404
    /\ deleted \cap Ids(products) = {}

C8_Witness ==
    \E s \in Slots :
        /\ Served(s) /\ OnDeleted(s) /\ req[s].method = "PUT"
        /\ resp[s].status = 404
        /\ products # {}

Failures(s) == SelectSeq(trace[s], LAMBDA e : e.error # "")

\* C9: when a persistence call of a handler throws a storage-level error, the
\* request ends with status 500 and a generic message that carries nothing of
\* the error; the call is the request's last (no retry) and the response is
\* no 200, 201 or 404. A 500 is given for no other reason.
C9_ServerError ==
    \A s \in Slots :
        /\ Len(Failures(s)) > 0 =>
              /\ pc[s] = "done"
              /\ resp[s].status = 500
              /\ resp[s].keys = {"error"}
              /\ resp[s].error \notin StorageErrors
              /\ Len(Failures(s)) = 1
              /\ trace[s][Len(trace[s])].error # ""
              /\ \A i, j \in 1..Len(trace[s]) :
                    trace[s][i].op = trace[s][j].op => i = j
        /\ resp[s].status = 500 => Len(Failures(s)) > 0

C9_Witness ==
    \E s \in Slots :
        /\ Served(s) /\ resp[s].status = 500
        /\ Len(trace[s]) = 3
        /\ trace[s][3].op = "save"

\* C10: from an empty store, whatever POST, PUT, PATCH and DELETE requests
\* are served, every stored product has a price above 0 and a name that is
\* not empty.
C10_StoredProductsValid ==
    \A p \in products : p.price > 0 /\ Len(p.name) > 0

C10_Witness ==
    /\ \E p \in products : p.price = 300
    /\ \E p \in products : p.price = 100

\* two availability updates of the same existing product, both answered 200,
\* that were in flight together: neither had saved when the other arrived
\* (both arrived with the row's availability at the same value, the original)
\* and theirs are the only two writes made since the first of them arrived
ToggledTogether(s, t) ==
    /\ s # t
    /\ Served(s) /\ Served(t)
    /\ req[s].method = "PATCH" /\ req[t].method = "PATCH"
    /\ Present(s) /\ Present(t)
    /\ TargetId(req[s]) = TargetId(req[t])
    /\ resp[s].status = 200 /\ resp[t].status = 200
    /\ RowById(before[s], TargetId(req[s])).availability
          = RowById(before[t], TargetId(req[t])).availability
    /\ writes[s] <= 2 /\ writes[t] <= 2

OriginalAvailability(s) == RowById(before[s], TargetId(req[s])).availability
StoredAvailability(s) == RowById(products, TargetId(req[s])).availability

\* C11 as claimed: when two PATCH /:id of the same existing product are in
\* flight together, their fetches and saves interleaving in any order, then
\* once both are answered 200 the stored availability is the value it had
\* before either request: no flip is lost.
C11_Original ==
    \A s, t \in Slots : ToggledTogether(s, t) =>
        /\ TargetId(req[s]) \in Ids(products)
        /\ StoredAvailability(s) = OriginalAvailability(s)

\* C11 as amended: each PATCH of an existing product is answered 200 with the
\* negation of the value it fetched; once both are answered, the stored
\* availability is the original value when the two responses differ (one
\* request fetched after the other saved) and its negation when they agree
\* (both fetched before either saved: one flip is lost).
C11_ToggleTogether ==
    /\ \A s \in Slots :
          (Served(s) /\ req[s].method = "PATCH" /\ Present(s)) =>
              /\ resp[s].status = 200
              /\ resp[s].data.kind = "product"
    /\ \A s, t \in Slots : ToggledTogether(s, t) =>
          LET original == OriginalAvailability(s)
              first == resp[s].data.val.availability
              second == resp[t].data.val.availability
          IN  /\ TargetId(req[s]) \in Ids(products)
              /\ first = ~original \/ second = ~original
              /\ StoredAvailability(s) = IF first = second THEN ~original ELSE original

C11_Witness ==
    \E s, t \in Slots :
        /\ ToggledTogether(s, t)
        /\ resp[s].data.val.availability = resp[t].data.val.availability
        /\ StoredAvailability(s) = ~OriginalAvailability(s)

C11_WitnessKept ==
    \E s, t \in Slots :
        /\ ToggledTogether(s, t)
        /\ StoredAvailability(s) = OriginalAvailability(s)

====
